---------------------------- MODULE Spec2Model ----------------------------
(***************************************************************************)
(* refactor_tools/import_refactor_helper.py: finding and renaming module   *)
(* imports across a tree of source files.                                  *)
(*                                                                         *)
(* Source text is a string; the i-th character of s is SubSeq(s, i, i).    *)
(* A session is a sequence of invocations (rename-imports, find-imports,   *)
(* the structural finder) on one tree; every walk visits the candidate     *)
(* files one at a time in an order the file system chooses.                *)
(***************************************************************************)
EXTENDS Integers, Sequences, FiniteSets, TLC

(***************************************************************************)
(* Text helpers (Python str and re primitives)                             *)
(***************************************************************************)
Ch(s, i) == SubSeq(s, i, i)

\* s[i:].startswith(lit), 1-based i
LitAt(s, i, lit) ==
    /\ i >= 1
    /\ i + Len(lit) - 1 <= Len(s)
    /\ SubSeq(s, i, i + Len(lit) - 1) = lit

StartsWith(s, prefix) == LitAt(s, 1, prefix)

\* First position j >= i that is a newline or past the end of s: where a
\* greedy ".*" started at i stops ("." matches anything but a newline).
RECURSIVE LineEnd(_, _)
LineEnd(s, i) ==
    IF i > Len(s) \/ Ch(s, i) = "\n" THEN i ELSE LineEnd(s, i + 1)

\* The module name is pasted into the pattern unescaped, so a "." of the
\* name is the regex wildcard; every other character of a dotted identifier
\* is a literal.
NameAt(s, i, name) ==
    /\ i >= 1
    /\ i + Len(name) - 1 <= Len(s)
    /\ \A k \in 1..Len(name) :
          IF Ch(name, k) = "."
          THEN Ch(s, i + k - 1) # "\n"
          ELSE Ch(s, i + k - 1) = Ch(name, k)

(***************************************************************************)
(* Pattern factory                                                         *)
(***************************************************************************)
\* "import {}(.*)": keyword, name, group (.*)
IMPORT_PATTERN_TEMPLATE(module_name) ==
    [kw |-> "import ", name |-> module_name, inner |-> ""]

\* "from {}(.* import .+)": keyword, name, group (.* import .+)
IMPORT_FROM_PATTERN_TEMPLATE(module_name) ==
    [kw |-> "from ", name |-> module_name, inner |-> " import "]

\* returns <<import_regex, import_from_regex>>
make_import_regexes(module_name) ==
    << IMPORT_PATTERN_TEMPLATE(module_name),
       IMPORT_FROM_PATTERN_TEMPLATE(module_name) >>

\* Start of group 1 of a match of regex at i
GroupStart(regex, i) == i + Len(regex.kw) + Len(regex.name)

\* regex.match at position i.  The group runs to the end of the line; for
\* the from-pattern the group must hold " import " followed by at least one
\* more character of the same line.
MatchAt(regex, s, i) ==
    /\ LitAt(s, i, regex.kw)
    /\ NameAt(s, i + Len(regex.kw), regex.name)
    /\ LET g == GroupStart(regex, i)
           e == LineEnd(s, g)
       IN  \/ regex.inner = ""
           \/ \E j \in g..(e - 1) :
                 /\ LitAt(s, j, regex.inner)
                 /\ j + Len(regex.inner) <= e - 1

\* End (exclusive) and group 1 of the match at i
MatchEnd(regex, s, i) == LineEnd(s, GroupStart(regex, i))
Group1(regex, s, i) == SubSeq(s, GroupStart(regex, i), MatchEnd(regex, s, i) - 1)

\* regex.search(source)
Search(regex, s) == \E i \in 1..Len(s) : MatchAt(regex, s, i)

\* Expand with the group forgotten (repl without "\1")
Expand_no_group(regex, repl, s, i) == repl

\* match.expand(repl) for the match at i; repl is "<kw>{new}\1"
Expand(regex, repl, s, i) == repl \o Group1(regex, s, i)

\* regex.finditer(source): start positions of the non-overlapping matches,
\* leftmost first
RECURSIVE FindIter(_, _, _)
FindIter(regex, s, pos) ==
    IF pos > Len(s) THEN << >>
    ELSE IF MatchAt(regex, s, pos)
         THEN <<pos>> \o FindIter(regex, s, MatchEnd(regex, s, pos))
         ELSE FindIter(regex, s, pos + 1)

\* regex.sub(repl, source)
RECURSIVE SubFrom(_, _, _, _)
SubFrom(regex, repl, s, pos) ==
    IF pos > Len(s) THEN ""
    ELSE IF MatchAt(regex, s, pos)
         THEN Expand(regex, repl, s, pos)
                  \o SubFrom(regex, repl, s, MatchEnd(regex, s, pos))
         ELSE Ch(s, pos) \o SubFrom(regex, repl, s, pos + 1)

Sub(regex, repl, s) == SubFrom(regex, repl, s, 1)

(***************************************************************************)
(* Structural import checker.  ast.parse is modelled by a parser of the    *)
(* statements the trees of this model are written in: import and           *)
(* from-import statements, assignments of a name or number, pass, comments,*)
(* statements joined by ";", and one level of "if <name>:" block indented  *)
(* by four spaces.  Any other text is a SyntaxError (the trees of this     *)
(* model hold nothing else that Python accepts).                           *)
(***************************************************************************)
None == "<None>"

Letters == {"a", "b", "c", "d", "e", "f", "g", "h", "i", "j", "k", "l", "m",
            "n", "o", "p", "q", "r", "s", "t", "u", "v", "w", "x", "y", "z",
            "_"}
Digits == {"0", "1", "2", "3", "4", "5", "6", "7", "8", "9"}
Keywords == {"import", "from", "as", "if", "def", "pass"}

\* Index of the first occurrence of the character c in s, or 0
RECURSIVE IndexFrom(_, _, _)
IndexFrom(s, c, i) ==
    IF i > Len(s) THEN 0
    ELSE IF Ch(s, i) = c THEN i ELSE IndexFrom(s, c, i + 1)

\* s.split(c)
RECURSIVE SplitOn(_, _)
SplitOn(s, c) ==
    LET i == IndexFrom(s, c, 1)
    IN  IF i = 0 THEN <<s>>
        ELSE <<SubSeq(s, 1, i - 1)>> \o SplitOn(SubSeq(s, i + 1, Len(s)), c)

NonEmpty(w) == w # ""
\* s.split(): the words of s
Words(s) == SelectSeq(SplitOn(s, " "), NonEmpty)

RECURSIVE Indent(_)
Indent(s) == IF s # "" /\ Ch(s, 1) = " " THEN 1 + Indent(Tail(s)) ELSE 0

StripComment(line) ==
    LET i == IndexFrom(line, "#", 1)
    IN  IF i = 0 THEN line ELSE SubSeq(line, 1, i - 1)

IsName(w) ==
    /\ w # ""
    /\ w \notin Keywords
    /\ Ch(w, 1) \in Letters
    /\ \A k \in 1..Len(w) : Ch(w, k) \in Letters \cup Digits

IsNumber(w) == w # "" /\ \A k \in 1..Len(w) : Ch(w, k) \in Digits

IsDottedName(w) ==
    LET parts == SplitOn(w, ".")
    IN  \A k \in 1..Len(parts) : IsName(parts[k])

\* Number of leading dots of a from-import's module (its level)
RECURSIVE Level(_)
Level(w) == IF w # "" /\ Ch(w, 1) = "." THEN 1 + Level(Tail(w)) ELSE 0

\* One "name" or "name as alias" of an import statement; dotted says whether
\* the name may be a dotted path
IsAlias(item, dotted) ==
    LET ws == Words(item)
        nameOk == IF dotted THEN IsDottedName(ws[1]) ELSE IsName(ws[1])
    IN  \/ Len(ws) = 1 /\ nameOk
        \/ Len(ws) = 3 /\ nameOk /\ ws[2] = "as" /\ IsName(ws[3])

\* <<name, asname>> of one item of an import statement
AliasOf(item) ==
    LET ws == Words(item)
    IN  <<ws[1], IF Len(ws) = 3 THEN ws[3] ELSE None>>

\* The text after the first n words of stmt, split at the commas
RECURSIVE DropWords(_, _)
DropWords(s, n) ==
    LET t == SubSeq(s, Indent(s) + 1, Len(s))
        i == IndexFrom(t, " ", 1)
    IN  IF n = 0 THEN t
        ELSE IF i = 0 THEN "" ELSE DropWords(SubSeq(t, i + 1, Len(t)), n - 1)

Items(stmt, n) == SplitOn(DropWords(stmt, n), ",")

\* A simple statement: [ok, body] with body the import nodes it holds
ParseSimple(stmt) ==
    LET ws == Words(stmt)
        bad == [ok |-> FALSE, body |-> << >>]
        none == [ok |-> TRUE, body |-> << >>]
    IN  IF Len(ws) = 0 THEN bad
        ELSE IF ws[1] = "import" THEN
            LET items == Items(stmt, 1)
            IN  IF Len(ws) >= 2 /\ \A k \in 1..Len(items) : IsAlias(items[k], TRUE)
                THEN [ok |-> TRUE,
                      body |-> << [type |-> "Import",
                                   names |-> {Words(items[k])[1] : k \in 1..Len(items)},
                                   aliases |-> {AliasOf(items[k]) : k \in 1..Len(items)},
                                   module |-> None,
                                   level |-> 0] >>]
                ELSE bad
        ELSE IF ws[1] = "from" THEN
            LET items == Items(stmt, 3)
                lvl == Level(ws[2])
                mod == SubSeq(ws[2], lvl + 1, Len(ws[2]))
            IN  IF /\ Len(ws) >= 4
                   /\ ws[3] = "import"
                   /\ IF mod = "" THEN lvl > 0 ELSE IsDottedName(mod)
                   /\ \/ Len(ws) = 4 /\ ws[4] = "*"
                      \/ \A k \in 1..Len(items) : IsAlias(items[k], FALSE)
                THEN [ok |-> TRUE,
                      body |-> << [type |-> "ImportFrom",
                                   names |-> {Words(items[k])[1] : k \in 1..Len(items)},
                                   aliases |-> {AliasOf(items[k]) : k \in 1..Len(items)},
                                   module |-> IF mod = "" THEN None ELSE mod,
                                   level |-> lvl] >>]
                ELSE bad
        ELSE IF ws = <<"pass">> THEN none
        ELSE IF Len(ws) = 3 /\ IsName(ws[1]) /\ ws[2] = "="
                /\ (IsName(ws[3]) \/ IsNumber(ws[3])) THEN none
        ELSE bad

\* The simple statements of one line, joined by ";"
RECURSIVE ParseParts(_, _)
ParseParts(parts, k) ==
    IF k > Len(parts) THEN [ok |-> TRUE, body |-> << >>]
    ELSE IF Words(parts[k]) = << >>
         THEN [ok |-> k = Len(parts) /\ k > 1, body |-> << >>]
         ELSE LET one == ParseSimple(parts[k])
                  rest == ParseParts(parts, k + 1)
              IN  [ok |-> one.ok /\ rest.ok, body |-> one.body \o rest.body]

IsBlockHeader(code) ==
    LET ws == Words(code)
    IN  /\ Len(ws) = 2
        /\ ws[1] = "if"
        /\ Len(ws[2]) >= 2
        /\ Ch(ws[2], Len(ws[2])) = ":"
        /\ IsName(SubSeq(ws[2], 1, Len(ws[2]) - 1))

\* Lines k.. of a module.  depth is the indentation of the enclosing block
\* (0 or 4); needBody says the previous line was a block header.
RECURSIVE ParseLines(_, _, _, _)
ParseLines(lines, k, depth, needBody) ==
    IF k > Len(lines) THEN [ok |-> ~needBody, body |-> << >>]
    ELSE
      LET code == StripComment(lines[k])
          ind == Indent(code)
      IN  IF Words(code) = << >> THEN ParseLines(lines, k + 1, depth, needBody)
          ELSE IF needBody /\ ind # depth + 4 THEN [ok |-> FALSE, body |-> << >>]
          ELSE IF ~needBody /\ ind \notin {0, depth} THEN [ok |-> FALSE, body |-> << >>]
          ELSE IF IsBlockHeader(code)
               THEN IF ind = 0 THEN ParseLines(lines, k + 1, 0, TRUE)
                    ELSE [ok |-> FALSE, body |-> << >>]
          ELSE LET here == ParseParts(SplitOn(code, ";"), 1)
                   rest == ParseLines(lines, k + 1, ind, FALSE)
               IN  [ok |-> here.ok /\ rest.ok, body |-> here.body \o rest.body]

\* ast.parse(source): [ok |-> FALSE] stands for raising SyntaxError; body is
\* the import nodes of the tree in source order, at any depth
Parse(source) ==
    LET r == ParseLines(SplitOn(source, "\n"), 1, 0, FALSE)
    IN  IF r.ok THEN r ELSE [ok |-> FALSE, body |-> << >>]

\* ImportCheckerVisitor.visit_ImportFrom: does the node set import_found
visit_ImportFrom(node, module_name) ==
    /\ node.module # None
    /\ StartsWith(node.module, module_name)

\* ImportCheckerVisitor.visit_Import: does the node set import_found
visit_Import(node, module_name) ==
    \E name \in node.names : StartsWith(name, module_name)

\* visitor.visit(root) followed by visitor.import_found
ImportCheckerVisitor(body, module_name) ==
    \E k \in 1..Len(body) :
        IF body[k].type = "ImportFrom"
        THEN visit_ImportFrom(body[k], module_name)
        ELSE visit_Import(body[k], module_name)

\* imports_module(path, module_name) on a file holding source; defined only
\* when the source parses (otherwise SyntaxError leaves the function)
imports_module(source, module_name) ==
    ImportCheckerVisitor(Parse(source).body, module_name)

(***************************************************************************)
(* Bounds and sample trees                                                 *)
(***************************************************************************)
\* Invocations per session
MaxRuns == 2

\* The longest rewritten line _meets_pep8 accepts
PEP8_MAX == 79

RECURSIVE Rep(_, _)
Rep(c, n) == IF n = 0 THEN "" ELSE c \o Rep(c, n - 1)

\* "import foo as <alias>" of n characters in all
LongImport(n) == "import foo as " \o Rep("a", n - 14)

\* The files of the tree; the walk visits those a glob of the walker selects
Paths == {"a.py", "b.rst", "c.txt"}

ContentsA ==
    { "import foo.bar\n",
      "from foo import baz\n",
      "from foo import foo\n",
      "import foo\nfrom foo import baz\n",
      "import foot\n",
      "import qux\n",
      "import foo_bar\n",
      "def (\n",
      LongImport(PEP8_MAX) \o "\n",
      LongImport(PEP8_MAX + 1) \o "\n" }

ContentsB ==
    { "from . import foo\n",
      "from . import x\n",
      "from .foo import baz\n",
      "x = 1\n",
      "import os, foo\n",
      "import foo; import foo\n",
      "import foo.bar\n",
      "def (\n",
      "if x:\n    " \o LongImport(PEP8_MAX - 3) \o "\n" }

ContentsC == { "import foo\n" }

\* <<old, new>> module identifiers a session renames between
Pairs == { <<"foo", "qux">>, <<"foo", "foot">>, <<"foo.bar", "qux">> }

VARIABLES
    files,            \* [Paths -> source text]: the tree on disk
    names,            \* the pair of module identifiers of this session
    walker,           \* class of the running walker, or "none"
    module_name,      \* BaseImportWalker.module_name
    new_module_name,  \* ImportRenamer.new_module_name
    todo,             \* candidate files the walk has not visited yet
    status,           \* "idle", "walking", "printed" or "SyntaxError"
    output,           \* ImportRenamer.output
    found_modules,    \* CollectingImportWalker.found_modules
    written,          \* files opened for writing by this walk
    start,            \* the tree when this walk began
    prev,             \* the invocation before this one
    runs              \* invocations begun

vars == <<files, names, walker, module_name, new_module_name, todo, status,
          output, found_modules, written, start, prev, runs>>

NoRun == [walker |-> "none", module_name |-> "", new_module_name |-> "",
          status |-> "idle", before |-> << >>, after |-> << >>]

Init ==
    /\ files \in [Paths -> ContentsA \cup ContentsB \cup ContentsC]
    /\ files["a.py"] \in ContentsA
    /\ files["b.rst"] \in ContentsB
    /\ files["c.txt"] \in ContentsC
    /\ names \in Pairs
    /\ walker = "none"
    /\ module_name = ""
    /\ new_module_name = ""
    /\ todo = {}
    /\ status = "idle"
    /\ output = << >>
    /\ found_modules = {}
    /\ written = {}
    /\ start = files
    /\ prev = NoRun
    /\ runs = 0

(***************************************************************************)
(* Tree walker                                                             *)
(***************************************************************************)
\* BaseImportWalker.globs
globs == {".py", ".enaml", ".rst"}

EndsWith(s, suffix) ==
    /\ Len(suffix) <= Len(s)
    /\ SubSeq(s, Len(s) - Len(suffix) + 1, Len(s)) = suffix

\* The module paths _visit_path hands to _visit_module
Candidates == {p \in Paths : \E g \in globs : EndsWith(p, g)}

\* A process has ended (or none has run): the next invocation may begin
Ended == status \in {"idle", "printed", "SyntaxError"}

ThisRun == [walker |-> walker, module_name |-> module_name,
            new_module_name |-> new_module_name, status |-> status,
            before |-> start, after |-> files]

\* BaseImportWalker.walk, up to the first _visit_module
Walk(class, old, new) ==
    /\ Ended
    /\ runs < MaxRuns
    /\ runs' = runs + 1
    /\ prev' = IF walker = "none" THEN prev ELSE ThisRun
    /\ walker' = class
    /\ module_name' = old
    /\ new_module_name' = new
    /\ todo' = Candidates
    /\ status' = "walking"
    /\ output' = << >>
    /\ found_modules' = {}
    /\ written' = {}
    /\ start' = files
    /\ UNCHANGED <<files, names>>

(***************************************************************************)
(* Import finders                                                          *)
(***************************************************************************)
\* find_imports(path, module_name): ImportFinderRE(module_name).walk(path)
find_imports == Walk("ImportFinderRE", names[1], "")

\* ImportFinderAST(module_name).walk(path)
find_imports_ast == Walk("ImportFinderAST", names[1], "")

\* ImportFinderRE._visit_module
ImportFinderRE_visit_module(module_path) ==
    LET source == files[module_path]
        import_regex == make_import_regexes(module_name)[1]
        import_from_regex == make_import_regexes(module_name)[2]
    IN  /\ walker = "ImportFinderRE"
        /\ status = "walking"
        /\ module_path \in todo
        /\ todo' = todo \ {module_path}
        /\ found_modules' =
              IF Search(import_regex, source)
              THEN found_modules \cup {module_path}
              ELSE IF Search(import_from_regex, source)
                   THEN found_modules \cup {module_path}
                   ELSE found_modules
        /\ UNCHANGED <<files, names, walker, module_name, new_module_name,
                       status, output, written, start, prev, runs>>

\* ImportFinderAST._visit_module; a SyntaxError raised by ast.parse is caught
\* nowhere and ends the process inside walk
ImportFinderAST_visit_module(module_path) ==
    LET source == files[module_path]
    IN  /\ walker = "ImportFinderAST"
        /\ status = "walking"
        /\ module_path \in todo
        /\ todo' = todo \ {module_path}
        /\ IF Parse(source).ok
           THEN /\ found_modules' =
                      IF imports_module(source, module_name)
                      THEN found_modules \cup {module_path}
                      ELSE found_modules
                /\ status' = status
           ELSE /\ status' = "SyntaxError"
                /\ found_modules' = found_modules
        /\ UNCHANGED <<files, names, walker, module_name, new_module_name,
                       output, written, start, prev, runs>>

(***************************************************************************)
(* Import renamer                                                          *)
(***************************************************************************)
\* ImportRenamer.__init__: the two replacement templates, "<kw><new>\1"
import_repl(new) == "import " \o new
import_from_repl(new) == "from " \o new

\* ImportRenamer._meets_pep8: "True", "False", or "None" without a match
RECURSIVE MeetsFrom(_, _, _, _, _)
MeetsFrom(source, regex, repl, matches, k) ==
    IF k > Len(matches) THEN "True"
    ELSE LET new_line == Expand(regex, repl, source, matches[k])
         IN  IF Len(new_line) > PEP8_MAX THEN "False"
             ELSE MeetsFrom(source, regex, repl, matches, k + 1)

_meets_pep8(source, regex, repl) ==
    LET matches == FindIter(regex, source, 1)
    IN  IF matches = << >> THEN "None"
        ELSE MeetsFrom(source, regex, repl, matches, 1)

\* _check without its early return: reports and substitutes whether or not
\* the pattern was found
_check_no_return(module_path, source, regex, repl, out) ==
    [ret |-> Sub(regex, repl, source),
     output |-> Append(out,
                       IF _meets_pep8(source, regex, repl) = "True"
                       THEN module_path
                       ELSE "pep8: " \o module_path)]

\* _check with the style verdict used as a gate: a rewrite that breaks the
\* line length is reported and dropped
_check_gated(module_path, source, regex, repl, out) ==
    IF ~Search(regex, source)
    THEN [ret |-> None, output |-> out]
    ELSE IF _meets_pep8(source, regex, repl) = "True"
         THEN [ret |-> Sub(regex, repl, source),
               output |-> Append(out, module_path)]
         ELSE [ret |-> None,
               output |-> Append(out, "pep8: " \o module_path)]

\* ImportRenamer._check: [ret, output] with ret the new source, or None, and
\* output the report after the call
_check(module_path, source, regex, repl, out) ==
    IF ~Search(regex, source)
    THEN [ret |-> None, output |-> out]
    ELSE [ret |-> Sub(regex, repl, source),
          output |-> Append(out,
                            IF _meets_pep8(source, regex, repl) = "True"
                            THEN module_path
                            ELSE "pep8: " \o module_path)]

_check_import(module_path, source, out) ==
    _check(module_path, source, make_import_regexes(module_name)[1],
           import_repl(new_module_name), out)

_check_import_from(module_path, source, out) ==
    _check(module_path, source, make_import_regexes(module_name)[2],
           import_from_repl(new_module_name), out)

\* rename_imports(path, module_name, new_module_name), in either direction
rename_imports ==
    \E pair \in {names, <<names[2], names[1]>>} :
        Walk("ImportRenamer", pair[1], pair[2])

\* ImportRenamer._visit_module
ImportRenamer_visit_module(module_path) ==
    LET source == files[module_path]
        first == _check_import(module_path, source, output)
        last == IF first.ret = None
                THEN _check_import_from(module_path, source, first.output)
                ELSE first
    IN  /\ walker = "ImportRenamer"
        /\ status = "walking"
        /\ module_path \in todo
        /\ todo' = todo \ {module_path}
        /\ output' = last.output
        /\ IF last.ret # None
           THEN /\ files' = [files EXCEPT ![module_path] = last.ret]
                /\ written' = written \cup {module_path}
           ELSE UNCHANGED <<files, written>>
        /\ UNCHANGED <<names, walker, module_name, new_module_name, status,
                       found_modules, start, prev, runs>>

\* print finder / print renamer: the walk returned
Print_walker ==
    /\ status = "walking"
    /\ todo = {}
    /\ status' = "printed"
    /\ UNCHANGED <<files, names, walker, module_name, new_module_name, todo,
                   output, found_modules, written, start, prev, runs>>

Next ==
    \/ find_imports
    \/ find_imports_ast
    \/ rename_imports
    \/ \E p \in Paths : ImportFinderRE_visit_module(p)
    \/ \E p \in Paths : ImportFinderAST_visit_module(p)
    \/ \E p \in Paths : ImportRenamer_visit_module(p)
    \/ Print_walker

Spec == Init /\ [][Next]_vars

TypeOK ==
    /\ todo \subseteq Candidates
    /\ found_modules \subseteq Candidates
    /\ written \subseteq Candidates
    /\ runs \in 0..MaxRuns

(***************************************************************************)
(* Vocabulary of the properties                                            *)
(***************************************************************************)
import_regex == make_import_regexes(module_name)[1]
import_from_regex == make_import_regexes(module_name)[2]

\* Either matcher of the running walker finds something in source
Matches(source) == Search(import_regex, source) \/ Search(import_from_regex, source)

\* The files this walk has visited
Visited == Candidates \ todo

Range(seq) == {seq[k] : k \in 1..Len(seq)}
Reported(p) == p \in Range(output) \/ ("pep8: " \o p) \in Range(output)
Tagged(p) == ("pep8: " \o p) \in Range(output)

Renaming == walker = "ImportRenamer"

\* This walk repeats the renaming the previous, finished invocation made
RepeatsRename ==
    /\ Renaming
    /\ prev.walker = "ImportRenamer"
    /\ prev.status = "printed"
    /\ prev.module_name = module_name
    /\ prev.new_module_name = new_module_name

\* This walk undoes the renaming the previous, finished invocation made
UndoesRename ==
    /\ Renaming
    /\ prev.walker = "ImportRenamer"
    /\ prev.status = "printed"
    /\ prev.module_name = new_module_name
    /\ prev.new_module_name = module_name
    /\ module_name # new_module_name

\* First character of the line that holds position i
RECURSIVE LineStart(_, _)
LineStart(s, i) ==
    IF i <= 1 \/ Ch(s, i - 1) = "\n" THEN i ELSE LineStart(s, i - 1)

\* The matcher _visit_module substitutes with in source, and its replacement
AppliedRegex(source) ==
    IF Search(import_regex, source) THEN import_regex ELSE import_from_regex
AppliedRepl(source) ==
    IF Search(import_regex, source) THEN import_repl(new_module_name)
    ELSE import_from_repl(new_module_name)

\* The whole lines of the rewritten file that hold a rewritten statement
RewrittenLines(source) ==
    LET regex == AppliedRegex(source)
        repl == AppliedRepl(source)
    IN  { SubSeq(source, LineStart(source, i), i - 1)
              \o Expand(regex, repl, source, i) :
          i \in Range(FindIter(regex, source, 1)) }

\* The dotted name that starts at position j of s
RECURSIVE ModuleToken(_, _)
ModuleToken(s, j) ==
    IF j <= Len(s) /\ Ch(s, j) \in Letters \cup Digits \cup {"."}
    THEN Ch(s, j) \o ModuleToken(s, j + 1)
    ELSE ""

\* Submodule rule: name is module M or a submodule of it
IsOrSub(name, M) == name = M \/ StartsWith(name, M \o ".")

SubmoduleRule(body, M) ==
    \E k \in 1..Len(body) :
        \/ /\ body[k].type = "Import"
           /\ \E name \in body[k].names : IsOrSub(name, M)
        \/ /\ body[k].type = "ImportFrom"
           /\ body[k].level = 0
           /\ body[k].module # None
           /\ IsOrSub(body[k].module, M)

\* source parses and every import statement it holds is a relative import
OnlyRelativeImports(source) ==
    LET tree == Parse(source)
    IN  /\ tree.ok
        /\ tree.body # << >>
        /\ \A k \in 1..Len(tree.body) :
              tree.body[k].type = "ImportFrom" /\ tree.body[k].level > 0

\* lit occurs in the text s
Contains(s, lit) == \E i \in 1..Len(s) : LitAt(s, i, lit)

HasDot(name) == Contains(name, ".")

(***************************************************************************)
(* Properties                                                              *)
(***************************************************************************)
\* C1: running the same rename a second time is a no-op: the second walk
\* writes no file, reports nothing and leaves every file as the first walk
\* left it.  Stated for a new name that does not begin with the old one.
C1_SecondRenameIsNoOp ==
    (RepeatsRename /\ ~StartsWith(new_module_name, module_name))
        => (written = {} /\ output = << >> /\ files = start)

\* C2: a file whose only import statements are relative imports is never put
\* in a finder's result set, and the renamer neither changes nor reports it.
C2_RelativeImportsUntouched ==
    \A p \in Candidates :
        OnlyRelativeImports(start[p])
            => (p \notin found_modules /\ files[p] = start[p] /\ ~Reported(p))

\* C3: a rewritten file is tagged as a style violation exactly when one of
\* its rewritten lines, taken as the whole source line with its leading
\* text, is longer than 79 characters.
C3_TaggedIffWholeLineTooLong ==
    Renaming =>
        \A p \in written :
            Tagged(p) <=> \E l \in RewrittenLines(start[p]) : Len(l) > PEP8_MAX

C5_MatchRespectsIdentifierBoundary ==
    walker \in {"ImportFinderRE", "ImportRenamer"} =>
        \A p \in Visited :
            \A regex \in {import_regex, import_from_regex} :
                \A i \in 1..Len(start[p]) :
                    MatchAt(regex, start[p], i)
                        => IsOrSub(ModuleToken(start[p], i + Len(regex.kw)),
                                   module_name)

\* C6: the structural finder reports a file that parses exactly when the
\* submodule rule holds of one of its import nodes.
C6_StructuralSubmoduleRule ==
    walker = "ImportFinderAST" =>
        \A p \in Visited :
            Parse(files[p]).ok
                => (p \in found_modules
                       <=> SubmoduleRule(Parse(files[p]).body, module_name))

\* C7: when the structural walk has ended, no file that fails to parse is in
\* the result set, every file that parses was visited, and every one of
\* those that imports the module is in the result set.
C7_ParseFailureContained ==
    (walker = "ImportFinderAST" /\ status # "walking") =>
        \A p \in Candidates :
            IF Parse(files[p]).ok
            THEN /\ p \in Visited
                 /\ imports_module(files[p], module_name) => p \in found_modules
            ELSE p \notin found_modules

\* C8: the renamer's visit of a file that matches neither matcher writes
\* nothing, changes no file and leaves the report as it was.
C8_NonMatchingFileUntouched ==
    [][ \A p \in Candidates :
          (Renaming /\ status = "walking" /\ p \in todo /\ p \notin todo'
              /\ ~Matches(files[p]))
              => (files' = files /\ written' = written /\ output' = output)
      ]_vars

\* The renamer has visited a file that matched neither matcher
C8_Witness ==
    /\ Renaming
    /\ \E p \in Visited :
          /\ ~Search(import_regex, start[p])
          /\ ~Search(import_from_regex, start[p])
          /\ p \notin written
    /\ written # {}

\* C9: the renamer's visit of a file that matches a matcher writes the
\* substituted text and appends exactly one entry for the file, the plain
\* path or the tagged one, whatever the style verdict.
C9_StyleCheckIsAdvisory ==
    [][ \A p \in Candidates :
          (Renaming /\ status = "walking" /\ p \in todo /\ p \notin todo'
              /\ Matches(files[p]))
              => /\ p \in written'
                 /\ files' = [files EXCEPT ![p] =
                       Sub(AppliedRegex(files[p]), AppliedRepl(files[p]), files[p])]
                 /\ Len(output') = Len(output) + 1
                 /\ SubSeq(output', 1, Len(output)) = output
                 /\ output'[Len(output')] \in {p, "pep8: " \o p}
      ]_vars

\* The renamer has rewritten a file whose entry it tagged
C9_Witness ==
    /\ Renaming
    /\ \E p \in written :
          /\ Tagged(p)
          /\ files[p] # start[p]
          /\ files[p] = Sub(AppliedRegex(start[p]), AppliedRepl(start[p]), start[p])

\* C10: when a rename to a name that does not begin with the old one has
\* finished, no candidate file matches a matcher of the old name any more,
\* and a pattern-based find of the old name that follows finds nothing.
C10_RenameCompleteInOneRun ==
    /\ (Renaming /\ status = "printed"
           /\ ~StartsWith(new_module_name, module_name))
          => \A p \in Candidates : ~Matches(files[p])
    /\ (walker = "ImportFinderRE" /\ status = "printed"
           /\ prev.walker = "ImportRenamer" /\ prev.status = "printed"
           /\ prev.module_name = module_name
           /\ ~StartsWith(prev.new_module_name, prev.module_name))
          => found_modules = {}
=============================================================================
